---- MODULE Spec2Model ----
(***************************************************************************)
(* Model of ServerHook.py: the Zobot (Zoho SalesIQ) webhook.               *)
(*                                                                         *)
(* A text (Python str) is a sequence of strings whose concatenation is    *)
(* the text: message texts are sequences of one-character strings, the    *)
(* literals of the program are one-element sequences.  "U+0301" stands    *)
(* for the combining acute accent (category Mn).                          *)
(***************************************************************************)
EXTENDS Integers, Sequences, FiniteSets, TLC

(***************************************************************************)
(* Characters and the str methods the program uses.                        *)
(***************************************************************************)
Uppers == <<"A","B","C","D","E","F","G","H","I","J","K","L","M",
            "N","O","P","Q","R","S","T","U","V","W","X","Y","Z">>

Lowers == <<"a","b","c","d","e","f","g","h","i","j","k","l","m",
            "n","o","p","q","r","s","t","u","v","w","x","y","z">>

UpperAccented == <<"Á","É","Í","Ó","Ú">>

LowerAccented == <<"á","é","í","ó","ú">>

UpperBase == <<"A","E","I","O","U">>

LowerBase == <<"a","e","i","o","u">>

\* the characters str.lower() changes, each with its lower case
LowerMap ==
  [c \in {Uppers[i] : i \in 1..26} \cup {UpperAccented[i] : i \in 1..5} |->
     IF \E i \in 1..26 : Uppers[i] = c
       THEN Lowers[CHOOSE i \in 1..26 : Uppers[i] = c]
       ELSE LowerAccented[CHOOSE i \in 1..5 : UpperAccented[i] = c]]

\* str.lower() on one character
LowerChar(c) == IF c \in DOMAIN LowerMap THEN LowerMap[c] ELSE c

\* the characters with a canonical decomposition, each with its decomposition
NFDMap ==
  [c \in {LowerAccented[i] : i \in 1..5} \cup {UpperAccented[i] : i \in 1..5} |->
     IF \E i \in 1..5 : LowerAccented[i] = c
       THEN <<LowerBase[CHOOSE i \in 1..5 : LowerAccented[i] = c], "U+0301">>
       ELSE <<UpperBase[CHOOSE i \in 1..5 : UpperAccented[i] = c], "U+0301">>]

\* unicodedata.normalize("NFD", c) on one character: canonical decomposition
NFDChar(c) == IF c \in DOMAIN NFDMap THEN NFDMap[c] ELSE <<c>>

\* unicodedata.category(c) == "Mn"
IsMn(c) == c = "U+0301"

\* the characters str.strip() and str.splitlines() treat specially
IsSpace(c) == c \in {" ", "\n", "\t"}

IsLineBreak(c) == c = "\n"

\* str.lower()
RECURSIVE Lower(_)
Lower(s) ==
  IF s = <<>> THEN <<>> ELSE <<LowerChar(Head(s))>> \o Lower(Tail(s))

\* unicodedata.normalize("NFD", s)
RECURSIVE NFD(_)
NFD(s) == IF s = <<>> THEN <<>> ELSE NFDChar(Head(s)) \o NFD(Tail(s))

\* "".join(c for c in ... if unicodedata.category(c) != "Mn")
RECURSIVE DropMn(_)
DropMn(s) ==
  IF s = <<>> THEN <<>>
  ELSE IF IsMn(Head(s)) THEN DropMn(Tail(s))
  ELSE <<Head(s)>> \o DropMn(Tail(s))

RECURSIVE LStrip(_)
LStrip(s) == IF s # <<>> /\ IsSpace(Head(s)) THEN LStrip(Tail(s)) ELSE s

RECURSIVE RStrip(_)
RStrip(s) ==
  IF s # <<>> /\ IsSpace(s[Len(s)]) THEN RStrip(SubSeq(s, 1, Len(s) - 1)) ELSE s

\* str.strip()
Strip(s) == RStrip(LStrip(s))

\* sub in s
Contains(sub, s) ==
  \E i \in 0..(Len(s) - Len(sub)) : \A j \in 1..Len(sub) : s[i + j] = sub[j]

\* str.splitlines()
RECURSIVE SplitLines(_)
SplitLines(s) ==
  IF s = <<>> THEN <<>>
  ELSE IF \E i \in 1..Len(s) : IsLineBreak(s[i])
    THEN LET i == CHOOSE j \in 1..Len(s) :
                    IsLineBreak(s[j]) /\ \A k \in 1..(j - 1) : ~IsLineBreak(s[k])
         IN <<SubSeq(s, 1, i - 1)>> \o SplitLines(SubSeq(s, i + 1, Len(s)))
    ELSE <<s>>

\* the value None, where a text may stand
None == <<"<None>">>

\* str(x) and the formatting of x in an f-string
Str(x) == IF x = None THEN <<"N","o","n","e">> ELSE x

\* truth value of a text or None
Truthy(x) == x # None /\ x # <<>>

\* dict.get(k) on a dict of texts
Get(d, k) == IF k \in DOMAIN d THEN d[k] ELSE None

\* normalizar_texto that strips before it removes the accents
normalizar_texto_StripAntes(txt) ==
  IF txt = None \/ txt = <<>> THEN <<>>
  ELSE DropMn(NFD(Lower(Strip(txt))))

\* normalizar_texto(txt)
normalizar_texto(txt) ==
  IF txt = None \/ txt = <<>> THEN <<>>
  ELSE Strip(DropMn(NFD(Lower(txt))))

(***************************************************************************)
(* The request payload.  A payload is a record                             *)
(*   handler : "trigger", "message", another string, or NoHandler          *)
(*   visitor : a dict (function on a set of field names) of strings        *)
(*   message : a message object (MsgNone, MsgStr(t) or MsgDict(d))         *)
(*   request : ReqNone, ReqDict(message object) or ReqStr(t), a request    *)
(*             that is a JSON string and not an object                     *)
(***************************************************************************)
\* payload.get("handler") when the key is missing
NoHandler == "<None>"

MsgNone == [kind |-> "none"]

MsgStr(t) == [kind |-> "str", s |-> t]

MsgDict(d) == [kind |-> "dict", d |-> d]

ReqNone == [kind |-> "none"]

ReqDict(m) == [kind |-> "dict", message |-> m]

ReqStr(t) == [kind |-> "str", s |-> t]

\* the AttributeError that .get raises on a value that is not a dict,
\* where a text may stand
AttributeError == <<"<AttributeError>">>

\* truth value of a message object: None, "" and {} are false
MsgTruthy(m) ==
  \/ m.kind = "str" /\ m.s # <<>>
  \/ m.kind = "dict" /\ DOMAIN m.d # {}

\* visitor.get(k) or ... : first field of the chain that is present and true
RECURSIVE FirstTrue(_, _)
FirstTrue(visitor, fields) ==
  IF fields = <<>> THEN "anon"
  ELSE IF Head(fields) \in DOMAIN visitor /\ visitor[Head(fields)] # ""
    THEN visitor[Head(fields)]
    ELSE FirstTrue(visitor, Tail(fields))

\* get_visitor_id(payload)
get_visitor_id(payload) ==
  FirstTrue(payload.visitor, <<"id", "visitor_id", "email", "phone", "ip">>)

\* extraer_mensaje(payload)
extraer_mensaje(payload) ==
  LET msg_obj == IF MsgTruthy(payload.message) THEN payload.message
                 ELSE IF payload.request.kind = "dict"
                   THEN payload.request.message
                   ELSE MsgNone
  IN IF /\ ~MsgTruthy(payload.message)
        /\ payload.request.kind = "str" /\ payload.request.s # <<>>
       THEN AttributeError
     ELSE IF msg_obj.kind = "dict"
       THEN LET txt == IF Truthy(Get(msg_obj.d, "text")) THEN msg_obj.d["text"]
                       ELSE IF Truthy(Get(msg_obj.d, "value"))
                         THEN msg_obj.d["value"]
                         ELSE <<>>
            IN Strip(Str(txt))
     ELSE IF msg_obj.kind = "str" THEN Strip(msg_obj.s)
     ELSE <<>>

(***************************************************************************)
(* Replies.                                                                *)
(***************************************************************************)
\* a str argument of build_reply
PyStr(t) == [str |-> t]

\* a list argument of build_reply
PyList(l) == [list |-> l]

\* input_card=None
NoCard == [type |-> "<None>"]

\* the response to a request whose handling raises: HTTP 500 and no reply
ServerError == [action |-> "<500>", replies |-> <<>>]

\* build_reply(texts, input_card, action)
build_reply(texts, input_card, action) ==
  LET replies == IF "str" \in DOMAIN texts THEN <<texts.str>> ELSE texts.list
      response == [action |-> action, replies |-> replies]
  IN IF input_card # NoCard
       THEN [action |-> action, replies |-> replies, input |-> input_card]
       ELSE response

\* the select card of the main menu
MenuCard ==
  [type |-> "select",
   options |-> << <<"Solicitud Cotización">>, <<"Servicio PostVenta">> >>]

(***************************************************************************)
(* Sessions: {"state": ..., "data": {...}}                                 *)
(***************************************************************************)
EmptyDict == [k \in {} |-> <<>>]

NewSession == [state |-> "inicio", data |-> EmptyDict]

\* d with d[k] = v
DictSet(d, k, v) == [x \in DOMAIN d \cup {k} |-> IF x = k THEN v ELSE d[x]]

\* d after d.update(e)
DictUpdate(d, e) ==
  [x \in DOMAIN d \cup DOMAIN e |-> IF x \in DOMAIN e THEN e[x] ELSE d[x]]

\* sessions after sessions[visitor_id] = {...}, an assignment instead of
\* setdefault
setdefault_Asigna(store, visitor_id) ==
  [x \in DOMAIN store \cup {visitor_id} |->
     IF x = visitor_id THEN NewSession ELSE store[x]]

\* sessions after sessions.setdefault(visitor_id, {...})
setdefault(store, visitor_id) ==
  IF visitor_id \in DOMAIN store THEN store
  ELSE [x \in DOMAIN store \cup {visitor_id} |->
          IF x = visitor_id THEN NewSession ELSE store[x]]

\* the prefix test with a misspelt prefix, which no state value has
startswith_postventa_Guion(state) == state \in {"postventa-desconocido"}

\* state.startswith("postventa_"), on the state values of the model
startswith_postventa(state) ==
  state \in {"postventa_nombre", "postventa_rut",
             "postventa_numero_factura", "postventa_detalle",
             "postventa_desconocido"}

(***************************************************************************)
(* Keywords of the menu and of the form parser.                            *)
(***************************************************************************)
K_cotiz == <<"c","o","t","i","z">>

K_solicitud_cotizacion ==
  <<"s","o","l","i","c","i","t","u","d"," ","c","o","t","i","z","a","c","i","o","n">>

K_cotizacion == <<"c","o","t","i","z","a","c","i","o","n">>

K_postventa == <<"p","o","s","t","v","e","n","t","a">>

K_post_venta == <<"p","o","s","t"," ","v","e","n","t","a">>

K_servicio_postventa ==
  <<"s","e","r","v","i","c","i","o"," ","p","o","s","t","v","e","n","t","a">>

K_empresa == <<"e","m","p","r","e","s","a">>

K_giro == <<"g","i","r","o">>

K_rut == <<"r","u","t">>

K_r_u_t_dots == <<"r",".","u",".","t">>

K_r_u_t_spaces == <<"r"," ","u"," ","t">>

K_contacto == <<"c","o","n","t","a","c","t","o">>

K_correo == <<"c","o","r","r","e","o">>

K_email == <<"e","m","a","i","l">>

K_telefono == <<"t","e","l","e","f","o","n","o">>

K_telefono_acc == <<"t","e","l","é","f","o","n","o">>

K_numero_de_parte == <<"n","u","m","e","r","o"," ","d","e"," ","p","a","r","t","e">>

K_numero_de_parte_acc ==
  <<"n","ú","m","e","r","o"," ","d","e"," ","p","a","r","t","e">>

K_descripcion == <<"d","e","s","c","r","i","p","c","i","o","n">>

K_marca == <<"m","a","r","c","a">>

K_cantidad == <<"c","a","n","t","i","d","a","d">>

K_direccion_de_entrega ==
  <<"d","i","r","e","c","c","i","o","n"," ","d","e"," ","e","n","t","r","e","g","a">>

K_direccion_de_entrega_acc ==
  <<"d","i","r","e","c","c","i","ó","n"," ","d","e"," ","e","n","t","r","e","g","a">>

(***************************************************************************)
(* The handlers.  Each takes the session and the message text and gives    *)
(* the session after the call and the reply returned.                      *)
(***************************************************************************)
\* the greeting without its input_card
GreetingReply_NoCard ==
  build_reply(
    PyList(<< <<"¡Bienvenido! Gracias por contactar con Selec.">>,
              <<"Por favor, seleccione una de las siguientes opciones para atender su solicitud.">> >>),
    NoCard, "reply")

GreetingReply ==
  build_reply(
    PyList(<< <<"¡Bienvenido! Gracias por contactar con Selec.">>,
              <<"Por favor, seleccione una de las siguientes opciones para atender su solicitud.">> >>),
    MenuCard, "reply")

\* the text of the form the visitor is asked to fill in
formulario ==
  <<"Perfecto, trabajaremos en su solicitud de cotización.\n",
    "Por favor responda copiando y completando este formulario en un solo mensaje:\n\n",
    "Nombre de la empresa:\n",
    "Giro:\n",
    "RUT:\n",
    "Nombre de contacto:\n",
    "Correo:\n",
    "Teléfono:\n",
    "Número de parte o descripción detallada:\n",
    "Marca:\n",
    "Cantidad:\n",
    "Dirección de entrega:">>

\* the first condition without the test for "cotiz"
EsCotizacion_SoloExacta(texto_norm) ==
  \/ Contains(K_solicitud_cotizacion, texto_norm)
  \/ texto_norm = K_cotizacion

\* the first condition of manejar_menu_principal
EsCotizacion(texto_norm) ==
  \/ Contains(K_cotiz, texto_norm)
  \/ Contains(K_solicitud_cotizacion, texto_norm)
  \/ texto_norm = K_cotizacion

\* the second condition of manejar_menu_principal
EsPostventa(texto_norm) ==
  \/ Contains(K_postventa, texto_norm)
  \/ Contains(K_post_venta, texto_norm)
  \/ Contains(K_servicio_postventa, texto_norm)

\* manejar_menu_principal testing the postventa keywords first
manejar_menu_principal_PostventaPrimero(session, message_text) ==
  LET texto_norm == normalizar_texto(message_text)
  IN IF EsPostventa(texto_norm)
       THEN [session |-> [session EXCEPT !.state = "postventa_nombre"],
             reply |-> build_reply(
               PyList(<< <<"Perfecto, trabajaremos en su solicitud de postventa.">>,
                         <<"Por favor, indique su nombre:">> >>),
               NoCard, "reply")]
     ELSE IF EsCotizacion(texto_norm)
       THEN [session |-> [session EXCEPT !.state = "cotizacion_bloque"],
             reply |-> build_reply(PyStr(formulario), NoCard, "reply")]
     ELSE [session |-> session,
           reply |-> build_reply(
             PyList(<< <<"No he podido identificar la opción.">>,
                       <<"Seleccione una de las siguientes opciones:">> >>),
             MenuCard, "reply")]

\* manejar_menu_principal that sends an unidentified message back to inicio
manejar_menu_principal_Reinicia(session, message_text) ==
  LET texto_norm == normalizar_texto(message_text)
  IN IF EsCotizacion(texto_norm)
       THEN [session |-> [session EXCEPT !.state = "cotizacion_bloque"],
             reply |-> build_reply(PyStr(formulario), NoCard, "reply")]
     ELSE IF EsPostventa(texto_norm)
       THEN [session |-> [session EXCEPT !.state = "postventa_nombre"],
             reply |-> build_reply(
               PyList(<< <<"Perfecto, trabajaremos en su solicitud de postventa.">>,
                         <<"Por favor, indique su nombre:">> >>),
               NoCard, "reply")]
     ELSE [session |-> [session EXCEPT !.state = "inicio"],
           reply |-> build_reply(
             PyList(<< <<"No he podido identificar la opción.">>,
                       <<"Seleccione una de las siguientes opciones:">> >>),
             MenuCard, "reply")]

\* manejar_menu_principal(session, message_text)
manejar_menu_principal(session, message_text) ==
  LET texto_norm == normalizar_texto(message_text)
  IN IF EsCotizacion(texto_norm)
       THEN [session |-> [session EXCEPT !.state = "cotizacion_bloque"],
             reply |-> build_reply(PyStr(formulario), NoCard, "reply")]
     ELSE IF EsPostventa(texto_norm)
       THEN [session |-> [session EXCEPT !.state = "postventa_nombre"],
             reply |-> build_reply(
               PyList(<< <<"Perfecto, trabajaremos en su solicitud de postventa.">>,
                         <<"Por favor, indique su nombre:">> >>),
               NoCard, "reply")]
     ELSE [session |-> session,
           reply |-> build_reply(
             PyList(<< <<"No he podido identificar la opción.">>,
                       <<"Seleccione una de las siguientes opciones:">> >>),
             MenuCard, "reply")]

\* the keys of campos
QuoteKeys ==
  {"empresa", "giro", "rut", "contacto", "correo", "telefono", "num_parte",
   "marca", "cantidad", "direccion_entrega"}

\* campos as initialised: every field blank
CamposEnBlanco == [k \in QuoteKeys |-> <<>>]

\* index of the first ":" of a line that has one
FirstColon(linea) ==
  CHOOSE j \in 1..Len(linea) :
    linea[j] = ":" /\ \A k \in 1..(j - 1) : linea[k] # ":"

\* the if/elif chain with the RUT keywords matched as substrings
CampoDeEtiqueta_RutSubcadena(etiqueta_norm) ==
  IF Contains(K_empresa, etiqueta_norm) THEN "empresa"
  ELSE IF Contains(K_giro, etiqueta_norm) THEN "giro"
  ELSE IF \/ Contains(K_rut, etiqueta_norm)
          \/ Contains(K_r_u_t_dots, etiqueta_norm)
          \/ Contains(K_r_u_t_spaces, etiqueta_norm)
    THEN "rut"
  ELSE IF Contains(K_contacto, etiqueta_norm) THEN "contacto"
  ELSE IF Contains(K_correo, etiqueta_norm) \/ Contains(K_email, etiqueta_norm)
    THEN "correo"
  ELSE IF Contains(K_telefono, etiqueta_norm)
          \/ Contains(K_telefono_acc, etiqueta_norm)
    THEN "telefono"
  ELSE IF \/ Contains(K_numero_de_parte, etiqueta_norm)
          \/ Contains(K_numero_de_parte_acc, etiqueta_norm)
          \/ Contains(K_descripcion, etiqueta_norm)
    THEN "num_parte"
  ELSE IF Contains(K_marca, etiqueta_norm) THEN "marca"
  ELSE IF Contains(K_cantidad, etiqueta_norm) THEN "cantidad"
  ELSE IF Contains(K_direccion_de_entrega, etiqueta_norm)
          \/ Contains(K_direccion_de_entrega_acc, etiqueta_norm)
    THEN "direccion_entrega"
  ELSE ""

\* the if/elif chain over etiqueta_norm: the key it assigns, "" when none
CampoDeEtiqueta(etiqueta_norm) ==
  IF Contains(K_empresa, etiqueta_norm) THEN "empresa"
  ELSE IF Contains(K_giro, etiqueta_norm) THEN "giro"
  ELSE IF etiqueta_norm \in {K_rut, K_r_u_t_dots, K_r_u_t_spaces} THEN "rut"
  ELSE IF Contains(K_contacto, etiqueta_norm) THEN "contacto"
  ELSE IF Contains(K_correo, etiqueta_norm) \/ Contains(K_email, etiqueta_norm)
    THEN "correo"
  ELSE IF Contains(K_telefono, etiqueta_norm)
          \/ Contains(K_telefono_acc, etiqueta_norm)
    THEN "telefono"
  ELSE IF \/ Contains(K_numero_de_parte, etiqueta_norm)
          \/ Contains(K_numero_de_parte_acc, etiqueta_norm)
          \/ Contains(K_descripcion, etiqueta_norm)
    THEN "num_parte"
  ELSE IF Contains(K_marca, etiqueta_norm) THEN "marca"
  ELSE IF Contains(K_cantidad, etiqueta_norm) THEN "cantidad"
  ELSE IF Contains(K_direccion_de_entrega, etiqueta_norm)
          \/ Contains(K_direccion_de_entrega_acc, etiqueta_norm)
    THEN "direccion_entrega"
  ELSE ""

\* one iteration of the loop that keeps the first value of a field
ParseLinea_PrimeroGana(campos, linea) ==
  IF ~(\E j \in 1..Len(linea) : linea[j] = ":") THEN campos
  ELSE LET i == FirstColon(linea)
           etiqueta == SubSeq(linea, 1, i - 1)
           valor == Strip(SubSeq(linea, i + 1, Len(linea)))
           campo == CampoDeEtiqueta(normalizar_texto(etiqueta))
       IN IF campo = "" \/ campos[campo] # <<>> THEN campos
          ELSE [campos EXCEPT ![campo] = valor]

\* one iteration of the loop over lineas
ParseLinea(campos, linea) ==
  IF ~(\E j \in 1..Len(linea) : linea[j] = ":") THEN campos
  ELSE LET i == FirstColon(linea)
           etiqueta == SubSeq(linea, 1, i - 1)
           valor == Strip(SubSeq(linea, i + 1, Len(linea)))
           campo == CampoDeEtiqueta(normalizar_texto(etiqueta))
       IN IF campo = "" THEN campos ELSE [campos EXCEPT ![campo] = valor]

\* the loop over lineas
RECURSIVE ParseLineas(_, _)
ParseLineas(campos, lineas) ==
  IF lineas = <<>> THEN campos
  ELSE ParseLineas(ParseLinea(campos, Head(lineas)), Tail(lineas))

\* campos after the loop of manejar_flujo_cotizacion_bloque
ParseCampos(message_text) ==
  LET texto == IF Truthy(message_text) THEN message_text ELSE <<>>
  IN ParseLineas(CamposEnBlanco, SplitLines(texto))

\* resumen of manejar_flujo_cotizacion_bloque
ResumenCotizacion(campos) ==
  <<"Resumen de su solicitud de cotización:\n">>
    \o <<"Nombre de la empresa: ">> \o Str(campos["empresa"]) \o <<"\n">>
    \o <<"Giro: ">> \o Str(campos["giro"]) \o <<"\n">>
    \o <<"RUT: ">> \o Str(campos["rut"]) \o <<"\n">>
    \o <<"Nombre de contacto: ">> \o Str(campos["contacto"]) \o <<"\n">>
    \o <<"Correo: ">> \o Str(campos["correo"]) \o <<"\n">>
    \o <<"Teléfono: ">> \o Str(campos["telefono"]) \o <<"\n">>
    \o <<"Número de parte / descripción: ">> \o Str(campos["num_parte"]) \o <<"\n">>
    \o <<"Marca: ">> \o Str(campos["marca"]) \o <<"\n">>
    \o <<"Cantidad: ">> \o Str(campos["cantidad"]) \o <<"\n">>
    \o <<"Dirección de entrega: ">> \o Str(campos["direccion_entrega"])

\* manejar_flujo_cotizacion_bloque without data.update(campos)
manejar_flujo_cotizacion_bloque_SinUpdate(session, message_text) ==
  LET campos == ParseCampos(message_text)
      data == session.data
  IN [session |-> [state |-> "menu_principal", data |-> data],
      reply |-> [action |-> "reply",
                 replies |-> <<
                   <<"Gracias. Hemos registrado su solicitud con el siguiente detalle:">>,
                   ResumenCotizacion(campos),
                   <<"Un ejecutivo de Selec se pondrá en contacto con usted.">> >>]]

\* manejar_flujo_cotizacion_bloque(session, message_text)
manejar_flujo_cotizacion_bloque(session, message_text) ==
  LET campos == ParseCampos(message_text)
      data == DictUpdate(session.data, campos)
  IN [session |-> [state |-> "menu_principal", data |-> data],
      reply |-> [action |-> "reply",
                 replies |-> <<
                   <<"Gracias. Hemos registrado su solicitud con el siguiente detalle:">>,
                   ResumenCotizacion(campos),
                   <<"Un ejecutivo de Selec se pondrá en contacto con usted.">> >>]]

\* resumen reading the invoice number under a key that is never written
ResumenPostventa_ClaveErrada(data) ==
  <<"Resumen de su solicitud de postventa:\n">>
    \o <<"Nombre: ">> \o Str(Get(data, "nombre")) \o <<"\n">>
    \o <<"RUT: ">> \o Str(Get(data, "rut")) \o <<"\n">>
    \o <<"Número de factura: ">> \o Str(Get(data, "factura")) \o <<"\n">>
    \o <<"Detalle: ">> \o Str(Get(data, "detalle"))

\* resumen of manejar_flujo_postventa
ResumenPostventa(data) ==
  <<"Resumen de su solicitud de postventa:\n">>
    \o <<"Nombre: ">> \o Str(Get(data, "nombre")) \o <<"\n">>
    \o <<"RUT: ">> \o Str(Get(data, "rut")) \o <<"\n">>
    \o <<"Número de factura: ">> \o Str(Get(data, "numero_factura")) \o <<"\n">>
    \o <<"Detalle: ">> \o Str(Get(data, "detalle"))

\* the reply of manejar_flujo_postventa that closes the flow
ReplyPostventa(resumen) ==
  [action |-> "reply",
   replies |-> <<
     <<"Gracias. Hemos registrado su solicitud de postventa con el siguiente detalle:">>,
     resumen,
     <<"Un ejecutivo se pondrá en contacto con usted.">> >>]

\* manejar_flujo_postventa storing the normalized text of the name
PostventaBranch_Normalizado(session, state, message_text) ==
  IF state = "postventa_nombre"
    THEN [session |-> [state |-> "postventa_rut",
                       data |-> DictSet(session.data, "nombre", normalizar_texto(message_text))],
          reply |-> build_reply(PyStr(<<"Indique su RUT:">>), NoCard, "reply")]
  ELSE IF state = "postventa_rut"
    THEN [session |-> [state |-> "postventa_numero_factura",
                       data |-> DictSet(session.data, "rut", message_text)],
          reply |-> build_reply(
            PyStr(<<"Indique el número de factura (si lo tiene):">>),
            NoCard, "reply")]
  ELSE IF state = "postventa_numero_factura"
    THEN [session |-> [state |-> "postventa_detalle",
                       data |-> DictSet(session.data, "numero_factura", message_text)],
          reply |-> build_reply(
            PyStr(<<"Describa brevemente el problema o solicitud de postventa:">>),
            NoCard, "reply")]
  ELSE IF state = "postventa_detalle"
    THEN LET data == DictSet(session.data, "detalle", message_text)
         IN [session |-> [state |-> "menu_principal", data |-> data],
             reply |-> ReplyPostventa(ResumenPostventa(data))]
  ELSE [session |-> [session EXCEPT !.state = "menu_principal"],
        reply |-> build_reply(
          PyList(<< <<"Ha ocurrido un problema con la conversación.">>,
                    <<"Volvamos al inicio. ¿Desea 'Solicitud Cotización' o 'Servicio PostVenta'?">> >>),
          NoCard, "reply")]

\* the branches of manejar_flujo_postventa, for the value read from
\* session["state"]
PostventaBranch(session, state, message_text) ==
  IF state = "postventa_nombre"
    THEN [session |-> [state |-> "postventa_rut",
                       data |-> DictSet(session.data, "nombre", message_text)],
          reply |-> build_reply(PyStr(<<"Indique su RUT:">>), NoCard, "reply")]
  ELSE IF state = "postventa_rut"
    THEN [session |-> [state |-> "postventa_numero_factura",
                       data |-> DictSet(session.data, "rut", message_text)],
          reply |-> build_reply(
            PyStr(<<"Indique el número de factura (si lo tiene):">>),
            NoCard, "reply")]
  ELSE IF state = "postventa_numero_factura"
    THEN [session |-> [state |-> "postventa_detalle",
                       data |-> DictSet(session.data, "numero_factura", message_text)],
          reply |-> build_reply(
            PyStr(<<"Describa brevemente el problema o solicitud de postventa:">>),
            NoCard, "reply")]
  ELSE IF state = "postventa_detalle"
    THEN LET data == DictSet(session.data, "detalle", message_text)
         IN [session |-> [state |-> "menu_principal", data |-> data],
             reply |-> ReplyPostventa(ResumenPostventa(data))]
  ELSE [session |-> [session EXCEPT !.state = "menu_principal"],
        reply |-> build_reply(
          PyList(<< <<"Ha ocurrido un problema con la conversación.">>,
                    <<"Volvamos al inicio. ¿Desea 'Solicitud Cotización' o 'Servicio PostVenta'?">> >>),
          NoCard, "reply")]

\* manejar_flujo_postventa(session, message_text)
manejar_flujo_postventa(session, message_text) ==
  PostventaBranch(session, session.state, message_text)

\* the message branch sending only menu_principal to the main menu
MessageBranch_SoloMenu(session, state, message_text) ==
  IF state \in {"menu_principal"}
    THEN manejar_menu_principal(session, message_text)
  ELSE IF state = "cotizacion_bloque"
    THEN manejar_flujo_cotizacion_bloque(session, message_text)
  ELSE IF startswith_postventa(state)
    THEN manejar_flujo_postventa(session, message_text)
  ELSE [session |-> [session EXCEPT !.state = "menu_principal"],
        reply |-> build_reply(
          PyList(<< <<"No he comprendido su mensaje.">>,
                    <<"Por favor, indique si desea 'Solicitud Cotización' o 'Servicio PostVenta'.">> >>),
          NoCard, "reply")]

\* the message branch with a fallback that leaves the state as it is
MessageBranch_SinReinicio(session, state, message_text) ==
  IF state \in {"menu_principal", "inicio"}
    THEN manejar_menu_principal(session, message_text)
  ELSE IF state = "cotizacion_bloque"
    THEN manejar_flujo_cotizacion_bloque(session, message_text)
  ELSE IF startswith_postventa(state)
    THEN manejar_flujo_postventa(session, message_text)
  ELSE [session |-> session,
        reply |-> build_reply(
          PyList(<< <<"No he comprendido su mensaje.">>,
                    <<"Por favor, indique si desea 'Solicitud Cotización' o 'Servicio PostVenta'.">> >>),
          NoCard, "reply")]

\* the message branch of salesiq_webhook, for the value read from
\* session["state"]
MessageBranch(session, state, message_text) ==
  IF state \in {"menu_principal", "inicio"}
    THEN manejar_menu_principal(session, message_text)
  ELSE IF state = "cotizacion_bloque"
    THEN manejar_flujo_cotizacion_bloque(session, message_text)
  ELSE IF startswith_postventa(state)
    THEN manejar_flujo_postventa(session, message_text)
  ELSE [session |-> [session EXCEPT !.state = "menu_principal"],
        reply |-> build_reply(
          PyList(<< <<"No he comprendido su mensaje.">>,
                    <<"Por favor, indique si desea 'Solicitud Cotización' o 'Servicio PostVenta'.">> >>),
          NoCard, "reply")]

\* Dispatch with a last branch that also resets the state
Dispatch_OtroReinicia(session, payload) ==
  LET handler == payload.handler
  IN IF handler = "trigger"
       THEN [session |-> [session EXCEPT !.state = "menu_principal"],
             reply |-> GreetingReply]
     ELSE IF handler = "message"
       THEN IF extraer_mensaje(payload) = AttributeError
              THEN [session |-> session, reply |-> ServerError]
              ELSE MessageBranch(session, session.state, extraer_mensaje(payload))
     ELSE [session |-> [session EXCEPT !.state = "menu_principal"],
           reply |-> build_reply(PyStr(<<"He recibido su mensaje.">>),
                                 NoCard, "reply")]

\* Dispatch with a misspelt state in the trigger branch
Dispatch_TriggerTypo(session, payload) ==
  LET handler == payload.handler
  IN IF handler = "trigger"
       THEN [session |-> [session EXCEPT !.state = "menu"],
             reply |-> GreetingReply]
     ELSE IF handler = "message"
       THEN IF extraer_mensaje(payload) = AttributeError
              THEN [session |-> session, reply |-> ServerError]
              ELSE MessageBranch(session, session.state, extraer_mensaje(payload))
     ELSE [session |-> session,
           reply |-> build_reply(PyStr(<<"He recibido su mensaje.">>),
                                 NoCard, "reply")]

\* Dispatch with a trigger branch that starts the session over, data included
Dispatch_TriggerBorraDatos(session, payload) ==
  LET handler == payload.handler
  IN IF handler = "trigger"
       THEN [session |-> [state |-> "menu_principal", data |-> EmptyDict],
             reply |-> GreetingReply]
     ELSE IF handler = "message"
       THEN IF extraer_mensaje(payload) = AttributeError
              THEN [session |-> session, reply |-> ServerError]
              ELSE MessageBranch(session, session.state, extraer_mensaje(payload))
     ELSE [session |-> session,
           reply |-> build_reply(PyStr(<<"He recibido su mensaje.">>),
                                 NoCard, "reply")]

\* salesiq_webhook on a POST, from the session looked up to the reply
Dispatch(session, payload) ==
  LET handler == payload.handler
  IN IF handler = "trigger"
       THEN [session |-> [session EXCEPT !.state = "menu_principal"],
             reply |-> GreetingReply]
     ELSE IF handler = "message"
       THEN IF extraer_mensaje(payload) = AttributeError
              THEN [session |-> session, reply |-> ServerError]
              ELSE MessageBranch(session, session.state, extraer_mensaje(payload))
     ELSE [session |-> session,
           reply |-> build_reply(PyStr(<<"He recibido su mensaje.">>),
                                 NoCard, "reply")]

(***************************************************************************)
(* The requests the model sends.                                           *)
(***************************************************************************)
\* number of requests in one run
MaxEvents == 5

TxtVacio == <<>>

TxtCotizacion == <<"C","o","t","i","z","a","c","i","ó","n">>

TxtPostVenta == <<"P","o","s","t"," ","V","e","n","t","a">>

TxtAmbos == <<"p","o","s","t","v","e","n","t","a"," ","c","o","t","i","z">>

TxtAna == <<" ","A","n","a">>

TxtForm ==
  <<"E","m","p","r","e","s","a",":"," ","A","c","m","e","\n","R","U","T",":","1","-","9">>

Texts == {TxtVacio, TxtCotizacion, TxtPostVenta, TxtAmbos, TxtAna, TxtForm}

Handlers == {"trigger", "message", "context", NoHandler}

\* visitor objects: "v1" by its id, "v1" again by its ip, and no visitor
VisitorDicts == {[id |-> "v1"], [id |-> "", ip |-> "v1"], EmptyDict}

\* where the payload carries the text
MessageShapes ==
  {[message |-> MsgStr(t), request |-> ReqNone] : t \in Texts}
  \cup {[message |-> MsgDict([text |-> TxtAna]), request |-> ReqNone],
        [message |-> MsgDict([text |-> <<>>, value |-> TxtPostVenta]),
         request |-> ReqNone],
        [message |-> MsgNone, request |-> ReqDict(MsgStr(TxtCotizacion))],
        [message |-> MsgNone, request |-> ReqNone]}

Payloads ==
  {[handler |-> "message", visitor |-> v, message |-> m.message,
    request |-> m.request] : v \in VisitorDicts, m \in MessageShapes}
  \cup {[handler |-> h, visitor |-> v, message |-> MsgNone, request |-> ReqNone] :
          h \in Handlers \ {"message"}, v \in VisitorDicts}

\* the requests of one visitor, the text at the root of the payload
VisitorPayloads ==
  {[handler |-> "message", visitor |-> [id |-> "v1"], message |-> MsgStr(t),
    request |-> ReqNone] : t \in Texts \ {TxtAmbos}}
  \cup {[handler |-> h, visitor |-> [id |-> "v1"], message |-> MsgNone,
         request |-> ReqNone] : h \in {"trigger", "context"}}

(***************************************************************************)
(* State.                                                                  *)
(*   sessions : the dict sessions                                          *)
(*   reply    : the reply of the last request                              *)
(*   last     : the last request: its visitor id, handler and message      *)
(*              text, the state its session had at dispatch, and whether   *)
(*              the lookup created the session                             *)
(*   pasos    : per visitor, the texts of the messages handled in the      *)
(*              postventa states since the visitor entered                 *)
(*              postventa_nombre, emptied by a trigger (history)           *)
(*   served   : number of requests served                                  *)
(* and, for the requests that the threaded server handles at the same      *)
(* time,                                                                   *)
(*   pc       : per thread, where it is in salesiq_webhook                  *)
(*   req      : per thread, the payload of its request                     *)
(*   loc      : per thread, its local variables state and resumen          *)
(*   started  : the payloads of the requests started, in order (history)   *)
(*   base     : the sessions the threads started from (history)            *)
(* and, for a function called on its own,                                  *)
(*   arg      : the argument of the call                                   *)
(*   ret      : the value returned                                         *)
(***************************************************************************)
VARIABLES sessions, reply, last, pasos, served, pc, req, loc, started, base,
          arg, ret

vars == <<sessions, reply, last, pasos, served, pc, req, loc, started, base,
          arg, ret>>

\* the variables of the threads
threadVars == <<pc, req, loc, started, base>>

\* the threads of the server
Threads == {"t1", "t2"}

NoPayload ==
  [handler |-> NoHandler, visitor |-> EmptyDict, message |-> MsgNone,
   request |-> ReqNone]

NoLocals == [state |-> "", resumen |-> <<>>]

NoReply == [action |-> "<None>", replies |-> <<>>]

NoRequest == [visitor_id |-> "", handler |-> NoHandler, text |-> <<>>,
              state |-> "", fresh |-> FALSE]

\* no function has been called on its own, or the call has not returned
NoCall == <<"<no call>">>

PostventaStates ==
  {"postventa_nombre", "postventa_rut", "postventa_numero_factura",
   "postventa_detalle"}

Init ==
  /\ sessions = [v \in {} |-> NewSession]
  /\ reply = NoReply
  /\ last = NoRequest
  /\ pasos = [v \in {} |-> <<>>]
  /\ served = 0
  /\ pc = [t \in Threads |-> "idle"]
  /\ req = [t \in Threads |-> NoPayload]
  /\ loc = [t \in Threads |-> NoLocals]
  /\ started = <<>>
  /\ base = sessions
  /\ arg = NoCall
  /\ ret = NoCall

\* the history pasos of a visitor after a request
PasosTras(visitor_id, payload, before, after) ==
  LET old == IF visitor_id \in DOMAIN pasos THEN pasos[visitor_id] ELSE <<>>
  IN IF /\ payload.handler = "message" /\ before \in PostventaStates
        /\ extraer_mensaje(payload) # AttributeError
       THEN Append(old, extraer_mensaje(payload))
     ELSE IF payload.handler = "trigger" \/ after = "postventa_nombre"
       THEN <<>>
     ELSE old

\* one POST to /salesiq-webhook, handled from start to end
Handle(payload) ==
  \E visitor_id \in {get_visitor_id(payload)} :
  \E store \in {setdefault(sessions, visitor_id)} :
  \E out \in {Dispatch(store[visitor_id], payload)} :
    /\ sessions' = [store EXCEPT ![visitor_id] = out.session]
    /\ reply' = out.reply
    /\ last' = [visitor_id |-> visitor_id,
                handler |-> payload.handler,
                text |-> extraer_mensaje(payload),
                state |-> store[visitor_id].state,
                fresh |-> visitor_id \notin DOMAIN sessions]
    /\ pasos' = [v \in DOMAIN store |->
                  IF v = visitor_id
                    THEN PasosTras(v, payload, store[v].state, out.session.state)
                    ELSE pasos[v]]
    /\ UNCHANGED threadVars
    /\ UNCHANGED <<arg, ret>>

\* a request of a run of at most MaxEvents requests of any visitors
Request(payload) ==
  /\ served < MaxEvents
  /\ Handle(payload)
  /\ served' = served + 1

Next == \E payload \in Payloads : Request(payload)

Spec == Init /\ [][Next]_vars

\* a request of one visitor, in a run of any length
VisitorRequest(payload) ==
  /\ Handle(payload)
  /\ UNCHANGED served

NextVisitor == \E payload \in VisitorPayloads : VisitorRequest(payload)

SpecVisitor == Init /\ [][NextVisitor]_vars

\* state strings outside the known set, written into a session from outside
\* the handlers: one with the prefix "postventa_" and one without
InjectedStates == {"postventa_desconocido", "desconocido"}

\* the store with such a session for visitor "v1", which has a name stored
InitInjected ==
  /\ \E st \in InjectedStates :
       sessions = [v \in {"v1"} |-> [state |-> st, data |-> [nombre |-> TxtAna]]]
  /\ reply = NoReply
  /\ last = NoRequest
  /\ pasos = [v \in {"v1"} |-> <<>>]
  /\ served = 0
  /\ pc = [t \in Threads |-> "idle"]
  /\ req = [t \in Threads |-> NoPayload]
  /\ loc = [t \in Threads |-> NoLocals]
  /\ started = <<>>
  /\ base = sessions
  /\ arg = NoCall
  /\ ret = NoCall

\* a run of at most MaxEvents requests from such a store
SpecInjected == InitInjected /\ [][Next]_vars

\* the payloads of Payloads and payloads whose request is a string, with a
\* message at the root and without
EnvelopePayloads ==
  Payloads
  \cup {[handler |-> h, visitor |-> v, message |-> m, request |-> ReqStr(TxtAna)] :
          h \in Handlers, v \in {[id |-> "v1"], EmptyDict},
          m \in {MsgNone, MsgStr(TxtAna)}}

\* a run of at most MaxEvents requests with any JSON object as body
NextEnvelope == \E payload \in EnvelopePayloads : Request(payload)

SpecEnvelope == Init /\ [][NextEnvelope]_vars

(***************************************************************************)
(* The threaded server: app.run serves each request in a thread of its own *)
(* and the code takes no lock, so the requests interleave between any two  *)
(* accesses to the shared dicts.  A step of a thread is one such access    *)
(* with the local computation that follows it.                             *)
(***************************************************************************)
\* number of requests in one run of the threads
MaxRequests == 2

\* sessions after one request handled alone
SeqStore(store, payload) ==
  LET visitor_id == get_visitor_id(payload)
      st == setdefault(store, visitor_id)
  IN [st EXCEPT ![visitor_id] = Dispatch(st[visitor_id], payload).session]

\* sessions after the requests of a sequence, handled one after the other
RECURSIVE RunAll(_, _)
RunAll(store, payloads) ==
  IF payloads = <<>> THEN store
  ELSE RunAll(SeqStore(store, Head(payloads)), Tail(payloads))

\* a message payload with the text at its root
Message(visitor, t) ==
  [handler |-> "message", visitor |-> visitor, message |-> MsgStr(t),
   request |-> ReqNone]

\* the requests the threads handle
ThreadPayloads ==
  {Message(v, t) : v \in {[id |-> "v1"], EmptyDict}, t \in {TxtAna, TxtPostVenta}}
  \cup {[handler |-> h, visitor |-> v, message |-> MsgNone, request |-> ReqNone] :
          h \in {"trigger", "context"}, v \in {[id |-> "v1"], EmptyDict}}

\* the sessions the threads start from: those that earlier requests of
\* visitor "v1", handled one after the other, leave behind
ThreadStores ==
  {RunAll([v \in {} |-> NewSession], run) :
     run \in {<<>>,
              <<Message([id |-> "v1"], TxtAna)>>,
              <<Message([id |-> "v1"], TxtCotizacion)>>,
              <<Message([id |-> "v1"], TxtPostVenta)>>,
              <<Message([id |-> "v1"], TxtPostVenta),
                Message([id |-> "v1"], TxtAna)>>,
              <<Message([id |-> "v1"], TxtPostVenta),
                Message([id |-> "v1"], TxtAna),
                Message([id |-> "v1"], TxtForm)>>,
              <<Message([id |-> "v1"], TxtPostVenta),
                Message([id |-> "v1"], TxtAna),
                Message([id |-> "v1"], TxtForm),
                Message([id |-> "v1"], TxtVacio)>>}}

InitThreads ==
  /\ sessions \in ThreadStores
  /\ reply = NoReply
  /\ last = NoRequest
  /\ pasos = [v \in {} |-> <<>>]
  /\ served = 0
  /\ pc = [t \in Threads |-> "idle"]
  /\ req = [t \in Threads |-> NoPayload]
  /\ loc = [t \in Threads |-> NoLocals]
  /\ started = <<>>
  /\ base = sessions
  /\ arg = NoCall
  /\ ret = NoCall

\* the visitor id and the message text of the request of thread t
VisitorOf(t) == get_visitor_id(req[t])

TextOf(t) == extraer_mensaje(req[t])

\* WithSession with one session object shared by every visitor
WithSession_Compartida(v, session) == [x \in DOMAIN sessions |-> session]

\* sessions with the session of visitor v replaced
WithSession(v, session) == [sessions EXCEPT ![v] = session]

\* thread t returns r
Return(t, r) ==
  /\ reply' = r
  /\ pc' = [pc EXCEPT ![t] = "idle"]

\* a request arrives and is given to the idle thread t
Start(t, payload) ==
  /\ pc[t] = "idle"
  /\ Len(started) < MaxRequests
  /\ req' = [req EXCEPT ![t] = payload]
  /\ loc' = [loc EXCEPT ![t] = NoLocals]
  /\ started' = Append(started, payload)
  /\ pc' = [pc EXCEPT ![t] = "lookup"]
  /\ UNCHANGED <<sessions, reply, base, last, pasos, served,
               arg, ret>>

\* session = sessions.setdefault(visitor_id, {...})
Lookup(t) ==
  /\ pc[t] = "lookup"
  /\ sessions' = setdefault(sessions, VisitorOf(t))
  /\ pc' = [pc EXCEPT ![t] = "dispatch"]
  /\ UNCHANGED <<reply, req, loc, started, base, last, pasos, served,
               arg, ret>>

\* if handler == "trigger": session["state"] = "menu_principal"
Trigger(t) ==
  /\ pc[t] = "dispatch"
  /\ req[t].handler = "trigger"
  /\ sessions' = WithSession(VisitorOf(t),
                    Dispatch(sessions[VisitorOf(t)], req[t]).session)
  /\ Return(t, GreetingReply)
  /\ UNCHANGED <<req, loc, started, base, last, pasos, served,
               arg, ret>>

\* the other handlers
Other(t) ==
  /\ pc[t] = "dispatch"
  /\ req[t].handler \notin {"trigger", "message"}
  /\ Return(t, Dispatch(sessions[VisitorOf(t)], req[t]).reply)
  /\ UNCHANGED <<sessions, req, loc, started, base, last, pasos, served,
               arg, ret>>

\* state = session.get("state", "inicio"), and the branch it selects
ReadState(t) ==
  /\ pc[t] = "dispatch"
  /\ req[t].handler = "message"
  /\ \E state \in {sessions[VisitorOf(t)].state} :
       /\ loc' = [loc EXCEPT ![t].state = state]
       /\ pc' = [pc EXCEPT ![t] =
                   IF state \in {"menu_principal", "inicio"} THEN "menu"
                   ELSE IF state = "cotizacion_bloque" THEN "cotizacion"
                   ELSE IF startswith_postventa(state) THEN "postventa"
                   ELSE "fallback"]
  /\ UNCHANGED <<sessions, reply, req, started, base, last, pasos, served,
               arg, ret>>

\* manejar_menu_principal: it reads nothing of the session and assigns
\* session["state"] at most once
Menu(t) ==
  /\ pc[t] = "menu"
  /\ \E out \in {manejar_menu_principal(sessions[VisitorOf(t)], TextOf(t))} :
       /\ sessions' = WithSession(VisitorOf(t), out.session)
       /\ Return(t, out.reply)
  /\ UNCHANGED <<req, loc, started, base, last, pasos, served,
               arg, ret>>

\* manejar_flujo_cotizacion_bloque up to data.update(campos)
CotUpdate(t) ==
  /\ pc[t] = "cotizacion"
  /\ sessions' = [sessions EXCEPT ![VisitorOf(t)].data =
       manejar_flujo_cotizacion_bloque(sessions[VisitorOf(t)], TextOf(t)).session.data]
  /\ pc' = [pc EXCEPT ![t] = "cot_state"]
  /\ UNCHANGED <<reply, req, loc, started, base, last, pasos, served,
               arg, ret>>

\* manejar_flujo_cotizacion_bloque from session["state"] = "menu_principal"
CotState(t) ==
  /\ pc[t] = "cot_state"
  /\ \E out \in {manejar_flujo_cotizacion_bloque(sessions[VisitorOf(t)], TextOf(t))} :
       /\ sessions' = [sessions EXCEPT ![VisitorOf(t)].state = out.session.state]
       /\ Return(t, out.reply)
  /\ UNCHANGED <<req, loc, started, base, last, pasos, served,
               arg, ret>>

\* manejar_flujo_postventa: state = session["state"]
PvRead(t) ==
  /\ pc[t] = "postventa"
  /\ \E state \in {sessions[VisitorOf(t)].state} :
       /\ loc' = [loc EXCEPT ![t].state = state]
       /\ pc' = [pc EXCEPT ![t] =
                   IF state \in PostventaStates THEN "pv_data" ELSE "pv_fallback"]
  /\ UNCHANGED <<sessions, reply, req, started, base, last, pasos, served,
               arg, ret>>

\* manejar_flujo_postventa: data[...] = message_text, in the branch of the
\* state read
PvData(t) ==
  /\ pc[t] = "pv_data"
  /\ sessions' = [sessions EXCEPT ![VisitorOf(t)].data =
       PostventaBranch(sessions[VisitorOf(t)], loc[t].state, TextOf(t)).session.data]
  /\ pc' = [pc EXCEPT ![t] =
              IF loc[t].state = "postventa_detalle" THEN "pv_resumen"
              ELSE "pv_state"]
  /\ UNCHANGED <<reply, req, loc, started, base, last, pasos, served,
               arg, ret>>

\* manejar_flujo_postventa: resumen = ..., read from data
PvResumen(t) ==
  /\ pc[t] = "pv_resumen"
  /\ loc' = [loc EXCEPT ![t].resumen = ResumenPostventa(sessions[VisitorOf(t)].data)]
  /\ pc' = [pc EXCEPT ![t] = "pv_state"]
  /\ UNCHANGED <<sessions, reply, req, started, base, last, pasos, served,
               arg, ret>>

\* manejar_flujo_postventa: session["state"] = ..., in the branch of the
\* state read, and the return
PvState(t) ==
  /\ pc[t] = "pv_state"
  /\ \E out \in {PostventaBranch(sessions[VisitorOf(t)], loc[t].state, TextOf(t))} :
       /\ sessions' = [sessions EXCEPT ![VisitorOf(t)].state = out.session.state]
       /\ Return(t, IF loc[t].state = "postventa_detalle"
                      THEN ReplyPostventa(loc[t].resumen)
                      ELSE out.reply)
  /\ UNCHANGED <<req, loc, started, base, last, pasos, served,
               arg, ret>>

\* the two fallbacks: session["state"] = "menu_principal" and the reply of
\* the dispatcher or of manejar_flujo_postventa
Fallback(t) ==
  /\ pc[t] \in {"fallback", "pv_fallback"}
  /\ \E out \in {IF pc[t] = "fallback"
                    THEN MessageBranch(sessions[VisitorOf(t)], loc[t].state, TextOf(t))
                    ELSE PostventaBranch(sessions[VisitorOf(t)], loc[t].state, TextOf(t))} :
       /\ sessions' = [sessions EXCEPT ![VisitorOf(t)].state = out.session.state]
       /\ Return(t, out.reply)
  /\ UNCHANGED <<req, loc, started, base, last, pasos, served,
               arg, ret>>

NextThreads ==
  \E t \in Threads :
    \/ \E payload \in ThreadPayloads : Start(t, payload)
    \/ Lookup(t)
    \/ Trigger(t)
    \/ Other(t)
    \/ ReadState(t)
    \/ Menu(t)
    \/ CotUpdate(t)
    \/ CotState(t)
    \/ PvRead(t)
    \/ PvData(t)
    \/ PvResumen(t)
    \/ PvState(t)
    \/ Fallback(t)

SpecThreads == InitThreads /\ [][NextThreads]_vars

(***************************************************************************)
(* The quote form parser on its own: the texts a visitor may send as form. *)
(***************************************************************************)
\* the field marca
L_Marca ==
  <<"M","a","r","c","a",":"," ","X">>

\* marca again, with blanks around the label and the value
L_MarcaOtra ==
  <<" ","m","a","r","c","a"," ",":","Y"," ">>

\* the label that is exactly a RUT keyword
L_Rut ==
  <<"R","U","T",":"," ","1","-","9">>

\* a label that contains the keyword rut among other text
L_RutCliente ==
  <<"R","u","t"," ","c","l","i","e","n","t","e",":"," ","7">>

\* a line without a colon
L_SinColon ==
  <<"h","o","l","a">>

\* a value that holds a colon
L_Correo ==
  <<"C","o","r","r","e","o",":"," ","a",":","b">>

\* a label without any keyword
L_Otro ==
  <<"O","t","r","o",":"," ","z">>

\* a label with the keywords of two fields
L_GiroEmpresa ==
  <<"G","i","r","o"," ","e","m","p","r","e","s","a",":"," ","G">>

\* the field giro
L_Giro ==
  <<"E","l"," ","g","i","r","o",":"," ","g">>

\* the field contacto
L_Contacto ==
  <<"C","o","n","t","a","c","t","o"," ","2",":"," ","c">>

\* the field correo by its second keyword
L_Email ==
  <<"M","i"," ","e","m","a","i","l",":"," ","e">>

\* the field telefono, accented
L_Telefono ==
  <<"S","u"," ","T","e","l","é","f","o","n","o",":"," ","5">>

\* the field num_parte by its second keyword
L_Descripcion ==
  <<"D","e","s","c","r","i","p","c","i","ó","n"," ","x",":"," ","p">>

\* the field cantidad
L_Cantidad ==
  <<"C","a","n","t","i","d","a","d"," ","t","o","t","a","l",":"," ","3">>

\* the field direccion_entrega
L_Direccion ==
  <<"D","i","r","e","c","c","i","ó","n"," ","d","e"," ","e","n","t","r","e","g","a"," ","1",":"," ","d">>

\* a label with the keyword rut and the keyword of a later field
L_RutContacto ==
  <<"R","u","t"," ","c","o","n","t","a","c","t","o",":"," ","r">>

\* the lines a form is made of
FormLines ==
  {L_Marca, L_MarcaOtra, L_Rut, L_RutCliente,
   L_SinColon, L_Correo, L_Otro, L_GiroEmpresa,
   L_Giro, L_Contacto, L_Email, L_Telefono,
   L_Descripcion, L_Cantidad, L_Direccion,
   L_RutContacto}

\* number of lines of a form
MaxLines == 2

\* the lines of a form joined into one text
RECURSIVE JoinLines(_)
JoinLines(ls) ==
  IF ls = <<>> THEN <<>>
  ELSE IF Len(ls) = 1 THEN ls[1]
  ELSE ls[1] \o <<"\n">> \o JoinLines(Tail(ls))

\* the form texts: up to MaxLines lines of FormLines
Forms == {JoinLines(ls) : ls \in UNION {[1..n -> FormLines] : n \in 0..MaxLines}}

\* the stores in which visitor "v1" has been asked for the form: at the
\* first quote and at a second one, with the fields of the first stored
FormStores ==
  {RunAll([v \in {} |-> NewSession], run) :
     run \in {<<Message([id |-> "v1"], TxtCotizacion)>>,
              <<Message([id |-> "v1"], TxtCotizacion),
                Message([id |-> "v1"], TxtForm),
                Message([id |-> "v1"], TxtCotizacion)>>}}

InitForm ==
  /\ sessions \in FormStores
  /\ reply = NoReply
  /\ last = NoRequest
  /\ pasos = [v \in {"v1"} |-> <<>>]
  /\ served = 0
  /\ pc = [t \in Threads |-> "idle"]
  /\ req = [t \in Threads |-> NoPayload]
  /\ loc = [t \in Threads |-> NoLocals]
  /\ started = <<>>
  /\ base = sessions
  /\ arg = NoCall
  /\ ret = NoCall

\* visitor "v1", asked for the form, sends it
FormRequest(f) ==
  /\ sessions["v1"].state = "cotizacion_bloque"
  /\ Handle(Message([id |-> "v1"], f))
  /\ UNCHANGED served

NextForm == \E f \in Forms : FormRequest(f)

\* the quote form parser applied to the form texts
SpecForm == InitForm /\ [][NextForm]_vars

(***************************************************************************)
(* normalizar_texto on its own.                                            *)
(***************************************************************************)
\* length of the texts normalized
MaxLen == 3

\* their characters: a letter in lower and upper case, accented letters in
\* both cases, the combining acute accent and the blank
NormChars == {"a", "A", "Á", "é", "U+0301", " "}

\* the arguments: None and every text of up to MaxLen characters
NormInputs ==
  {None} \cup UNION {[1..n -> NormChars] : n \in 0..MaxLen}

InitNormalizar ==
  /\ sessions = [v \in {} |-> NewSession]
  /\ reply = NoReply
  /\ last = NoRequest
  /\ pasos = [v \in {} |-> <<>>]
  /\ served = 0
  /\ pc = [t \in Threads |-> "idle"]
  /\ req = [t \in Threads |-> NoPayload]
  /\ loc = [t \in Threads |-> NoLocals]
  /\ started = <<>>
  /\ base = sessions
  /\ arg \in NormInputs
  /\ ret = NoCall

\* the call normalizar_texto(arg)
Normalizar ==
  /\ ret = NoCall
  /\ ret' = normalizar_texto(arg)
  /\ UNCHANGED <<sessions, reply, last, pasos, served, pc, req, loc, started,
                 base, arg>>

NextNormalizar == Normalizar

SpecNormalizar == InitNormalizar /\ [][NextNormalizar]_vars

(***************************************************************************)
(* Properties.                                                             *)
(***************************************************************************)
KnownStates ==
  {"inicio", "menu_principal", "cotizacion_bloque", "postventa_nombre",
   "postventa_rut", "postventa_numero_factura", "postventa_detalle"}

\* the session of the visitor of the last request
LastSession == sessions[last.visitor_id]

\* the last request was a message handled in state st
MessageIn(st) == last.handler = "message" /\ last.state = st

\* the last request was a message handled in the main menu
MessageInMenu ==
  last.handler = "message" /\ last.state \in {"menu_principal", "inicio"}

\* C1: every session's state is one of the seven known values
C1_StateKnown ==
  \A v \in DOMAIN sessions : sessions[v].state \in KnownStates

C1_Witness ==
  \E v, w \in DOMAIN sessions :
    /\ sessions[v].state = "postventa_rut"
    /\ sessions[w].state = "cotizacion_bloque"

\* the reply the claims expect of a trigger
ExpectedGreeting ==
  [action |-> "reply",
   replies |-> << <<"¡Bienvenido! Gracias por contactar con Selec.">>,
                  <<"Por favor, seleccione una de las siguientes opciones para atender su solicitud.">> >>,
   input |-> [type |-> "select",
              options |-> << <<"Solicitud Cotización">>,
                             <<"Servicio PostVenta">> >>]]

\* C2: a trigger, from any prior state, sets the state to menu_principal and
\* returns the greeting with the two-option select; a second trigger in a
\* row leaves state and reply as the first left them
C2_Trigger ==
  /\ [](last.handler = "trigger" =>
          /\ LastSession.state = "menu_principal"
          /\ reply = ExpectedGreeting)
  /\ [][(/\ last.handler = "trigger"
          /\ last'.handler = "trigger"
          /\ last'.visitor_id = last.visitor_id)
          => /\ reply' = reply
             /\ sessions'[last.visitor_id] = sessions[last.visitor_id]]_vars

C2_Witness ==
  /\ last.handler = "trigger"
  /\ last.state = "postventa_numero_factura"
  /\ reply = ExpectedGreeting

\* the state after a message handled in a postventa state
Siguiente(st) ==
  CASE st = "postventa_nombre" -> "postventa_rut"
    [] st = "postventa_rut" -> "postventa_numero_factura"
    [] st = "postventa_numero_factura" -> "postventa_detalle"
    [] st = "postventa_detalle" -> "menu_principal"

\* the data fields of the postventa flow, in the order of its steps
PostventaKeys == <<"nombre", "rut", "numero_factura", "detalle">>

\* the first n postventa fields of data hold the texts of pasos, in order
PasosGuardados(data, p, n) ==
  /\ Len(p) = n
  /\ \A i \in 1..n : Get(data, PostventaKeys[i]) = p[i]

\* C3: the messages handled in postventa_nombre, postventa_rut,
\* postventa_numero_factura and postventa_detalle store their texts
\* unchanged, in order, in nombre, rut, numero_factura and detalle, and each
\* moves the state one step along the flow, whatever its text
C3_PostventaFlow ==
  \A v \in DOMAIN sessions :
    LET s == sessions[v]
        p == pasos[v]
    IN /\ s.state = "postventa_nombre" => p = <<>>
       /\ s.state = "postventa_rut" => PasosGuardados(s.data, p, 1)
       /\ s.state = "postventa_numero_factura" => PasosGuardados(s.data, p, 2)
       /\ s.state = "postventa_detalle" => PasosGuardados(s.data, p, 3)
       /\ (last.visitor_id = v /\ last.handler = "message"
             /\ last.state \in PostventaStates)
            => /\ s.state = Siguiente(last.state)
               /\ p # <<>>
               /\ p[Len(p)] = last.text
       /\ (last.visitor_id = v /\ MessageIn("postventa_detalle"))
            => PasosGuardados(s.data, p, 4)

C3_Witness ==
  /\ MessageIn("postventa_detalle")
  /\ pasos[last.visitor_id] =
       <<TxtCotizacion, TxtPostVenta, <<"A","n","a">>, TxtVacio>>
  /\ LastSession.state = "menu_principal"

\* the summary the claims expect of the postventa flow
ExpectedResumenPostventa(nombre, rut, numero_factura, detalle) ==
  <<"Resumen de su solicitud de postventa:\n">>
    \o <<"Nombre: ">> \o nombre \o <<"\n">>
    \o <<"RUT: ">> \o rut \o <<"\n">>
    \o <<"Número de factura: ">> \o numero_factura \o <<"\n">>
    \o <<"Detalle: ">> \o detalle

\* C4: the summary of a message handled in postventa_detalle shows the three
\* texts entered in the preceding steps of this pass and the current text
C4_ResumenPostventa ==
  MessageIn("postventa_detalle") =>
    LET p == pasos[last.visitor_id]
    IN /\ Len(p) = 4
       /\ p[4] = last.text
       /\ Len(reply.replies) = 3
       /\ reply.replies[2] = ExpectedResumenPostventa(p[1], p[2], p[3], p[4])

\* a quote with another RUT was registered before this pass
C4_Witness ==
  /\ MessageIn("postventa_detalle")
  /\ Get(LastSession.data, "empresa") = <<"A","c","m","e">>
  /\ Get(LastSession.data, "rut") = <<"A","n","a">>
  /\ reply.replies[2] =
       ExpectedResumenPostventa(TxtVacio, <<"A","n","a">>, TxtPostVenta, TxtCotizacion)

\* the fields the claims expect the parser to read from a text of Texts:
\* only the form text names fields
ExpectedCampos(text) ==
  IF text = TxtForm
    THEN [k \in QuoteKeys |->
            IF k = "empresa" THEN <<"A","c","m","e">>
            ELSE IF k = "rut" THEN <<"1","-","9">>
            ELSE <<>>]
    ELSE [k \in QuoteKeys |-> <<>>]

\* the summary the claims expect of the quote flow
ExpectedResumenCotizacion(c) ==
  <<"Resumen de su solicitud de cotización:\n">>
    \o <<"Nombre de la empresa: ">> \o c["empresa"] \o <<"\n">>
    \o <<"Giro: ">> \o c["giro"] \o <<"\n">>
    \o <<"RUT: ">> \o c["rut"] \o <<"\n">>
    \o <<"Nombre de contacto: ">> \o c["contacto"] \o <<"\n">>
    \o <<"Correo: ">> \o c["correo"] \o <<"\n">>
    \o <<"Teléfono: ">> \o c["telefono"] \o <<"\n">>
    \o <<"Número de parte / descripción: ">> \o c["num_parte"] \o <<"\n">>
    \o <<"Marca: ">> \o c["marca"] \o <<"\n">>
    \o <<"Cantidad: ">> \o c["cantidad"] \o <<"\n">>
    \o <<"Dirección de entrega: ">> \o c["direccion_entrega"]

\* C5: a message handled in cotizacion_bloque, whatever its text, sets the
\* state to menu_principal, leaves all ten quote fields in session.data with
\* the values parsed from this text (blank when absent), whatever was stored
\* before, and returns the summary of the ten fields
C5_CotizacionBloque ==
  MessageIn("cotizacion_bloque") =>
    LET c == ExpectedCampos(last.text)
    IN /\ LastSession.state = "menu_principal"
       /\ QuoteKeys \subseteq DOMAIN LastSession.data
       /\ \A k \in QuoteKeys : LastSession.data[k] = c[k]
       /\ reply =
            [action |-> "reply",
             replies |-> <<
               <<"Gracias. Hemos registrado su solicitud con el siguiente detalle:">>,
               ExpectedResumenCotizacion(c),
               <<"Un ejecutivo de Selec se pondrá en contacto con usted.">> >>]

\* an empty text blanks the RUT a postventa pass had stored
C5_Witness ==
  /\ MessageIn("cotizacion_bloque")
  /\ last.text = TxtVacio
  /\ "detalle" \in DOMAIN LastSession.data
  /\ LastSession.data["nombre"] = <<"A","n","a">>
  /\ LastSession.data["rut"] = <<>>

\* a normalized text names the quote option
NombraCotizacion(texto_norm) == Contains(K_cotiz, texto_norm)

\* a normalized text names the postventa option
NombraPostventa(texto_norm) ==
  \/ Contains(K_postventa, texto_norm)
  \/ Contains(K_post_venta, texto_norm)

\* the state the claims expect after a message with this normalized text is
\* handled in the main menu; "" where they expect no change
MenuTarget(texto_norm) ==
  IF NombraCotizacion(texto_norm) THEN "cotizacion_bloque"
  ELSE IF NombraPostventa(texto_norm) THEN "postventa_nombre"
  ELSE ""

\* C6: a message handled in menu_principal or inicio whose normalized text
\* contains "cotiz" sets the state to cotizacion_bloque and returns the form
\* template as the only reply, without input
C6_MenuCotizacion ==
  (MessageInMenu /\ NombraCotizacion(normalizar_texto(last.text))) =>
    /\ LastSession.state = "cotizacion_bloque"
    /\ DOMAIN reply = {"action", "replies"}
    /\ reply.action = "reply"
    /\ reply.replies = <<formulario>>

C6_Witness ==
  /\ MessageIn("menu_principal")
  /\ last.text = TxtCotizacion
  /\ LastSession.state = "cotizacion_bloque"
  /\ reply.replies = <<formulario>>

\* C7: a message handled in menu_principal or inicio whose normalized text
\* contains "postventa" or "post venta" moves to postventa_nombre exactly
\* when the text does not contain "cotiz", and to cotizacion_bloque when it
\* does
C7_FirstMatchWins ==
  (MessageInMenu /\ NombraPostventa(normalizar_texto(last.text))) =>
    /\ LastSession.state = MenuTarget(normalizar_texto(last.text))
    /\ LastSession.state = "postventa_nombre"
         <=> ~NombraCotizacion(normalizar_texto(last.text))

C7_Witness ==
  /\ MessageInMenu
  /\ last.text = TxtAmbos
  /\ LastSession.state = "cotizacion_bloque"

\* the reply the claims expect of an unrecognized option
ExpectedNoIdentificada ==
  [action |-> "reply",
   replies |-> << <<"No he podido identificar la opción.">>,
                  <<"Seleccione una de las siguientes opciones:">> >>,
   input |-> [type |-> "select",
              options |-> << <<"Solicitud Cotización">>,
                             <<"Servicio PostVenta">> >>]]

\* the message texts whose normalized text names no option
UnrecognizedTexts ==
  {t \in {extraer_mensaje(p) : p \in Payloads} :
     MenuTarget(normalizar_texto(t)) = ""}

\* the step handles a message in the main menu that names no option
UnrecognizedStep ==
  /\ last'.handler = "message"
  /\ last'.state \in {"menu_principal", "inicio"}
  /\ last'.text \in UnrecognizedTexts

\* the data of a visitor before a request: empty when the lookup creates
\* the session
DataBefore(v) == IF v \in DOMAIN sessions THEN sessions[v].data ELSE EmptyDict

\* C8 as claimed: an unrecognized message in menu_principal or inicio leaves
\* the session in menu_principal, the data unchanged, and returns the
\* 'not identified' menu
C8_Original ==
  [][UnrecognizedStep =>
       /\ sessions'[last'.visitor_id].state = "menu_principal"
       /\ sessions'[last'.visitor_id].data = DataBefore(last'.visitor_id)
       /\ reply' = ExpectedNoIdentificada]_vars

\* C8 as amended: an unrecognized message in menu_principal or inicio leaves
\* the state as it was (menu_principal or inicio), the data unchanged, and
\* returns the 'not identified' menu, however often it is repeated
C8_Unrecognized ==
  [][UnrecognizedStep =>
       /\ sessions'[last'.visitor_id].state = last'.state
       /\ sessions'[last'.visitor_id].data = DataBefore(last'.visitor_id)
       /\ reply' = ExpectedNoIdentificada]_vars

\* a second unrecognized message of a visitor still in inicio, with data
C8_Witness ==
  /\ MessageIn("menu_principal")
  /\ ~last.fresh
  /\ last.text = <<"A","n","a">>
  /\ LastSession.state = "menu_principal"
  /\ "nombre" \in DOMAIN LastSession.data
  /\ reply = ExpectedNoIdentificada

\* an unrecognized message of a visitor whose session stays in inicio
C8_WitnessInicio ==
  /\ MessageIn("inicio")
  /\ ~last.fresh
  /\ LastSession.state = "inicio"
  /\ reply = ExpectedNoIdentificada

\* the session a request starts from: the stored one, or the one the lookup
\* creates
SessionBefore(v) == IF v \in DOMAIN sessions THEN sessions[v] ELSE NewSession

\* C9: a request whose handler is neither trigger nor message leaves the
\* state and data of the visitor's session as the lookup found (or created)
\* them, leaves every other session alone, and returns the acknowledgement
C9_OtherHandler ==
  [][(last'.handler \notin {"trigger", "message"}) =>
       /\ sessions'[last'.visitor_id] = SessionBefore(last'.visitor_id)
       /\ \A v \in DOMAIN sessions : sessions'[v] = sessions[v]
       /\ reply' = [action |-> "reply",
                    replies |-> << <<"He recibido su mensaje.">> >>]]_vars

C9_Witness ==
  /\ last.handler = "context"
  /\ last.state = "postventa_rut"
  /\ LastSession.state = "postventa_rut"
  /\ Get(LastSession.data, "nombre") = TxtCotizacion
  /\ reply = [action |-> "reply", replies |-> << <<"He recibido su mensaje.">> >>]

\* no request is being handled
Quiescent == \A t \in Threads : pc[t] = "idle"

\* C10: two trigger or message requests of one visitor, overlapping or not,
\* leave the sessions as handling them one after the other, in one of the
\* two orders, would
C10_SerializedPerVisitor ==
  (/\ Quiescent
   /\ Len(started) = 2
   /\ get_visitor_id(started[1]) = get_visitor_id(started[2])
   /\ \A i \in 1..2 : started[i].handler \in {"trigger", "message"})
  => sessions \in {RunAll(base, <<started[1], started[2]>>),
                   RunAll(base, <<started[2], started[1]>>)}

(***************************************************************************)
(* C11: requests of different visitors.                                    *)
(***************************************************************************)
\* the reply of a request handled alone from the sessions store
AloneReply(store, payload) ==
  LET visitor_id == get_visitor_id(payload)
  IN Dispatch(setdefault(store, visitor_id)[visitor_id], payload).reply

\* the request of thread t is the only one started for its visitor
OnlyRequestOfVisitor(t) ==
  Cardinality({i \in 1..Len(started) :
                 get_visitor_id(started[i]) = VisitorOf(t)}) = 1

\* thread t returns in this step
Returns(t) == pc[t] # "idle" /\ pc'[t] = "idle"

\* C11: under any interleaving, a step changes (or creates) only the session
\* of the visitor whose request takes the step, and a request that is the
\* only one of its visitor returns the reply and leaves the session of that
\* visitor that it gives when handled alone, whatever the requests of other
\* visitors do meanwhile
C11_NoInterference ==
  /\ [][\A v \in DOMAIN sessions' :
          (v \notin DOMAIN sessions \/ sessions'[v] # sessions[v])
            => \E t \in Threads : pc'[t] # pc[t] /\ VisitorOf(t) = v]_vars
  /\ [][\A t \in Threads :
          (Returns(t) /\ OnlyRequestOfVisitor(t))
            => /\ reply' = AloneReply(base, req[t])
               /\ sessions'[VisitorOf(t)]
                    = SeqStore(base, req[t])[VisitorOf(t)]]_vars

\* a message of "v1" is between its write of data and its write of state
\* while a message of the visitor without id is in the main menu
C11_Witness ==
  /\ pc["t1"] = "pv_state"
  /\ pc["t2"] = "menu"
  /\ VisitorOf("t1") = "v1"
  /\ VisitorOf("t2") = "anon"
  /\ sessions["v1"] # base["v1"]

(***************************************************************************)
(* C12: every event is answered with a reply.                              *)
(***************************************************************************)
\* C12: whatever the handler, the state of the session and the message text
\* (empty and missing included), the request is answered with a reply whose
\* action is "reply" and whose replies are not empty, and nothing is raised
C12_AlwaysReply ==
  served > 0 => (/\ reply # ServerError
                 /\ reply.action = "reply"
                 /\ reply.replies # <<>>)

(***************************************************************************)
(* C13: a message in a state outside the known set.                        *)
(***************************************************************************)
\* C13: a message handled while the session holds a state string outside the
\* known set ends with the state menu_principal and a reply that is not
\* empty: the recovery reply of the postventa handler when the string starts
\* with "postventa_", the generic reply of the dispatcher when it does not
C13_InvalidState ==
  (last.handler = "message" /\ last.state \in InjectedStates)
  => /\ LastSession.state = "menu_principal"
     /\ reply.action = "reply"
     /\ reply.replies # <<>>
     /\ reply.replies[1] =
          (IF last.state = "postventa_desconocido"
             THEN <<"Ha ocurrido un problema con la conversación.">>
             ELSE <<"No he comprendido su mensaje.">>)

\* a message was handled in the injected state postventa_desconocido
C13_Witness ==
  /\ last.handler = "message"
  /\ last.state = "postventa_desconocido"
  /\ last.text = Strip(TxtAna)
  /\ LastSession.state = "menu_principal"
  /\ Len(reply.replies) = 2

(***************************************************************************)
(* C14: the session lookup.                                                *)
(***************************************************************************)
\* C14: the lookup of a request, whatever its handler, is one step that
\* creates the session of its visitor with state inicio and empty data when
\* the visitor has none and otherwise leaves the existing session as it is,
\* also when it overlaps a request of the same visitor; every session of
\* the store is left as it is, and dispatch finds the session in the store
C14_GetOrCreate ==
  /\ [](\A t \in Threads :
          pc[t] \notin {"idle", "lookup"} => VisitorOf(t) \in DOMAIN sessions)
  /\ [][\A t \in Threads :
          (pc[t] = "lookup" /\ pc'[t] = "dispatch")
            => /\ DOMAIN sessions' = DOMAIN sessions \cup {VisitorOf(t)}
               /\ VisitorOf(t) \notin DOMAIN sessions
                    => sessions'[VisitorOf(t)] = NewSession
               /\ \A x \in DOMAIN sessions : sessions'[x] = sessions[x]]_vars

\* two first requests of the visitor without id overlap: both have done the
\* lookup, and the store holds the one session created
C14_Witness ==
  /\ pc["t1"] = "menu"
  /\ pc["t2"] = "dispatch"
  /\ VisitorOf("t1") = "anon"
  /\ VisitorOf("t2") = "anon"
  /\ "anon" \notin DOMAIN base
  /\ sessions["anon"] = NewSession

(***************************************************************************)
(* C15: the quote form parser against its reference.                       *)
(***************************************************************************)
\* a line holds a colon
HasColon(l) == \E j \in 1..Len(l) : l[j] = ":"

\* the lines of a text that hold a colon, in order
ColonLines(text) == SelectSeq(SplitLines(text), HasColon)

\* label and value of a line with a colon: the text before the first colon
\* and the text after it
LabelOf(l) == SubSeq(l, 1, FirstColon(l) - 1)

ValueOf(l) == SubSeq(l, FirstColon(l) + 1, Len(l))

\* the reference of the claim: each field holds the trimmed value of the
\* last line whose label selects it, and the empty string when none does
RefCampos(text) ==
  LET ls == ColonLines(text)
      Sel(k) == {i \in 1..Len(ls) :
                   CampoDeEtiqueta(normalizar_texto(LabelOf(ls[i]))) = k}
      Ultimo(S) == CHOOSE i \in S : \A j \in S : j <= i
  IN [k \in QuoteKeys |->
        IF Sel(k) = {} THEN <<>> ELSE Strip(ValueOf(ls[Ultimo(Sel(k))]))]

\* C15: after a form text is parsed the session data holds, under exactly
\* the ten quote keys, what the reference gives for that text: per field the
\* trimmed value after the first colon of the last line that selects it, the
\* empty string when no line does; lines without a colon or with a label
\* that selects no field change nothing
C15_ParserReference ==
  MessageIn("cotizacion_bloque") =>
    /\ QuoteKeys \subseteq DOMAIN LastSession.data
    /\ DOMAIN LastSession.data \ QuoteKeys = DOMAIN base["v1"].data \ QuoteKeys
    /\ \A k \in QuoteKeys : LastSession.data[k] = RefCampos(last.text)[k]
    /\ reply.action = "reply"

\* two lines select marca and the second wins; the line without a colon
\* and the blanks are dropped
C15_Witness ==
  /\ MessageIn("cotizacion_bloque")
  /\ last.text = Strip(JoinLines(<<L_Marca, L_MarcaOtra>>))
  /\ LastSession.data["marca"] = <<"Y">>
  /\ LastSession.data["empresa"] = <<>>

(***************************************************************************)
(* C16: how a label selects its field.                                     *)
(***************************************************************************)
\* the fields in their fixed order, each with its keywords
KeywordTable ==
  << [campo |-> "empresa", claves |-> {K_empresa}],
     [campo |-> "giro", claves |-> {K_giro}],
     [campo |-> "rut", claves |-> {K_rut, K_r_u_t_dots, K_r_u_t_spaces}],
     [campo |-> "contacto", claves |-> {K_contacto}],
     [campo |-> "correo", claves |-> {K_correo, K_email}],
     [campo |-> "telefono", claves |-> {K_telefono}],
     [campo |-> "num_parte", claves |-> {K_numero_de_parte, K_descripcion}],
     [campo |-> "marca", claves |-> {K_marca}],
     [campo |-> "cantidad", claves |-> {K_cantidad}],
     [campo |-> "direccion_entrega", claves |-> {K_direccion_de_entrega}] >>

\* the field of the first entry of the table that a normalized label
\* matches, "" when it matches none.  A label matches an entry when it
\* contains one of its keywords; with rut_exacto it matches the entry of
\* rut only when it is equal to one of its keywords
RefSelect(etiqueta_norm, rut_exacto) ==
  LET Matches(i) ==
        IF KeywordTable[i].campo = "rut" /\ rut_exacto
          THEN etiqueta_norm \in KeywordTable[i].claves
          ELSE \E kw \in KeywordTable[i].claves : Contains(kw, etiqueta_norm)
      M == {i \in 1..Len(KeywordTable) : Matches(i)}
  IN IF M = {} THEN ""
     ELSE KeywordTable[CHOOSE i \in M : \A j \in M : i <= j].campo

\* data holds what the lines of text assign when labels select fields by
\* RefSelect: the value of the last line (with a colon) selecting a field,
\* blank for a field that no line selects
LinesAssign(data, text, rut_exacto) ==
  LET ls == ColonLines(text)
      campos == [i \in 1..Len(ls) |->
                   RefSelect(normalizar_texto(LabelOf(ls[i])), rut_exacto)]
  IN /\ \A i \in 1..Len(ls) :
          (campos[i] # "" /\ \A j \in (i + 1)..Len(ls) : campos[j] # campos[i])
            => data[campos[i]] = Strip(ValueOf(ls[i]))
     /\ \A k \in QuoteKeys :
          (\A i \in 1..Len(ls) : campos[i] # k) => data[k] = <<>>

\* C16 as claimed: every one of the ten fields, rut included, is selected by
\* a label that contains its keyword and no keyword earlier in the order
C16_Original ==
  MessageIn("cotizacion_bloque")
    => LinesAssign(LastSession.data, last.text, FALSE)

\* C16: nine of the ten fields are selected by a label that contains their
\* keyword, whatever surrounds it, and no keyword of an earlier field; the
\* field rut is selected only by a label equal to "rut", "r.u.t" or "r u t",
\* and a label that holds rut among other text passes on to later fields
C16_SubstringExceptRut ==
  MessageIn("cotizacion_bloque")
    => LinesAssign(LastSession.data, last.text, TRUE)

\* the label "RUT" selects the field rut and the label "Rut cliente", which
\* follows it, does not
C16_Witness ==
  /\ MessageIn("cotizacion_bloque")
  /\ last.text = JoinLines(<<L_Rut, L_RutCliente>>)
  /\ LastSession.data["rut"] = <<"1","-","9">>

StateBefore(v) == IF v \in DOMAIN sessions THEN sessions[v].state ELSE "inicio"

\* the transition relation of the claim
Allowed(handler, before, after) ==
  IF handler = "trigger" THEN after = "menu_principal"
  ELSE IF handler = "message"
    THEN CASE before \in {"menu_principal", "inicio"} ->
                after \in {"cotizacion_bloque", "postventa_nombre", before}
           [] before = "cotizacion_bloque" -> after = "menu_principal"
           [] before = "postventa_nombre" -> after = "postventa_rut"
           [] before = "postventa_rut" -> after = "postventa_numero_factura"
           [] before = "postventa_numero_factura" -> after = "postventa_detalle"
           [] before = "postventa_detalle" -> after = "menu_principal"
           [] OTHER -> FALSE
  ELSE after = before

\* C18: a request moves the state of the session of its visitor along the
\* transition relation of its handler and leaves the state of every other
\* session as it is, and no request takes a session from another state to
\* inicio
C18_Transitions ==
  [][\A v \in DOMAIN sessions' :
       /\ IF v = last'.visitor_id
            THEN Allowed(last'.handler, StateBefore(v), sessions'[v].state)
            ELSE v \in DOMAIN sessions /\ sessions'[v].state = sessions[v].state
       /\ sessions'[v].state = "inicio" => StateBefore(v) = "inicio"]_vars

\* a message has taken a session from postventa_numero_factura to
\* postventa_detalle
C18_Witness ==
  /\ last.handler = "message"
  /\ last.state = "postventa_numero_factura"
  /\ LastSession.state = "postventa_detalle"
  /\ served = 4

(***************************************************************************)
(* C19: what a request writes in the data of a session.                    *)
(***************************************************************************)
\* the keys of data that a request with this handler may write in a session
\* that holds this state
KeysWritten(handler, state) ==
  IF handler # "message" THEN {}
  ELSE IF state = "cotizacion_bloque" THEN QuoteKeys
  ELSE IF state = "postventa_nombre" THEN {"nombre"}
  ELSE IF state = "postventa_rut" THEN {"rut"}
  ELSE IF state = "postventa_numero_factura" THEN {"numero_factura"}
  ELSE IF state = "postventa_detalle" THEN {"detalle"}
  ELSE {}

\* C19: a request changes the data of the session of its visitor only under
\* the keys of the step that handles it: the ten quote keys for a message in
\* cotizacion_bloque, the key of the step for a message in a postventa
\* state, and no key for a trigger, another event or a message in
\* menu_principal or inicio; it leaves the data of every other session as
\* it is
C19_DataFrame ==
  [][\A v \in DOMAIN sessions' :
       IF v = last'.visitor_id
         THEN LET keys == KeysWritten(last'.handler, StateBefore(v))
                  old == DataBefore(v)
                  new == sessions'[v].data
              IN /\ DOMAIN new = DOMAIN old \cup keys
                 /\ \A k \in DOMAIN old \ keys : new[k] = old[k]
         ELSE v \in DOMAIN sessions /\ sessions'[v].data = sessions[v].data]_vars

\* a trigger has left in place the name stored by an earlier message
C19_Witness ==
  /\ last.handler = "trigger"
  /\ last.state = "postventa_rut"
  /\ LastSession.state = "menu_principal"
  /\ Get(LastSession.data, "nombre") = <<"A","n","a">>

(***************************************************************************)
(* C20: the fallback replies.                                              *)
(***************************************************************************)
\* C20: when the requests are handled one at a time from an empty sessions
\* store, no request is answered with the fallback reply of the dispatcher
\* or with the recovery reply of manejar_flujo_postventa
C20_NoFallback ==
  served > 0 =>
    /\ reply.replies # <<>>
    /\ reply.replies[1] \notin {<<"No he comprendido su mensaje.">>,
                                <<"Ha ocurrido un problema con la conversación.">>}

\* manejar_flujo_postventa has handled a message in the state the
\* dispatcher branched on
C20_Witness ==
  /\ last.handler = "message"
  /\ last.state = "postventa_rut"
  /\ reply.replies = << <<"Indique el número de factura (si lo tiene):">> >>

====
